---- MODULE Spec2Model ----
(***************************************************************************)
(* A model of src/LightVis.py: the colour mapper wavelength_to_rgb, the    *)
(* wave field WaveSimulationWidget.calculate_wave, the widget's setters    *)
(* and animation tick, and the control handlers of LightSimulationApp.     *)
(*                                                                         *)
(* Numbers.  Python floats are modelled by exact rationals:                *)
(*   - a refractive index n is the integer 10000*n (1.0003 is 10003);      *)
(*   - time is counted in units of the tick increment 0.01;                *)
(*   - the position sample i (0-based) of np.linspace(0, 3000, 3000) is    *)
(*     the rational i*3000/2999, kept as the numerator over XDen;          *)
(*   - the amplitude of a sample is kept as the closed form of the code's  *)
(*     expression A * S * sin(phase): the record of A and of the terms of  *)
(*     the phase, the sine left unevaluated.  Equal records are equal      *)
(*     values.                                                             *)
(***************************************************************************)
EXTENDS Integers, Sequences, FiniteSets, TLC

VARIABLES
    widget,       \* the fields of WaveSimulationWidget (self.wavelength, ...)
    wave_curve,   \* self.wave_curve: [data, pen, visible]
    wave_curves,  \* self.wave_curves: wl -> [data, pen, visible]
    app,          \* the controls of LightSimulationApp (sliders, combos, checks)
    calls,        \* the wavelengths calculate_wave was called with by the last handler
    ticks,        \* number of update_animation calls so far
    events,       \* number of control events so far
    last,         \* name of the last operation
    nm,           \* argument of wavelength_to_rgb (colour-mapper specification)
    rgb,          \* its result, <<>> before the call
    wave_args,    \* the last direct call of calculate_wave: [self, wavelength]
    prev_args     \* the direct call before it

vars == <<widget, wave_curve, wave_curves, app, calls, ticks, events, last,
          nm, rgb, wave_args, prev_args>>

(***************************************************************************)
(* Bounds of the model.                                                    *)
(***************************************************************************)
\* wavelength_to_rgb is applied to every integer in 380-NmMargin .. 750+NmMargin
NmMargin == 80
\* at most MaxTicks animation ticks in a behaviour
MaxTicks == 2
\* at most MaxEvents control events (or direct setter calls) in a behaviour
MaxEvents == 3
\* at most MaxCalls direct calls of calculate_wave in a behaviour
MaxCalls == 2
\* at most MaxWaveSets parameter changes between those calls
MaxWaveSets == 1

(***************************************************************************)
(* Exact arithmetic.                                                       *)
(***************************************************************************)
\* a rational num/den, den > 0
Rat(num, den) == [num |-> num, den |-> den]

\* the greatest common divisor of two positive integers
RECURSIVE Gcd(_, _)
Gcd(a, b) == IF b = 0 THEN a ELSE Gcd(b, a % b)

\* the rational num/den in lowest terms
Lowest(num, den) == Rat(num \div Gcd(num, den), den \div Gcd(num, den))

\* Python's round() of the non-negative rational num/den: to the nearest
\* integer, a tie to the even one
PyRound(num, den) ==
    LET q == num \div den
        r == num % den
    IN  IF 2 * r < den THEN q
        ELSE IF 2 * r > den THEN q + 1
        ELSE IF q % 2 = 0 THEN q ELSE q + 1

(***************************************************************************)
(* wavelength_to_rgb (src/LightVis.py:11-59).                              *)
(***************************************************************************)
\* lines 18-43: the raw (r, g, b) of the band nm falls in
RawRGB(n) ==
    IF 380 <= n /\ n < 440 THEN <<Rat(440 - n, 60), Rat(0, 1), Rat(1, 1)>>
    ELSE IF 440 <= n /\ n < 490 THEN <<Rat(0, 1), Rat(n - 440, 50), Rat(1, 1)>>
    ELSE IF 490 <= n /\ n < 510 THEN <<Rat(0, 1), Rat(1, 1), Rat(510 - n, 20)>>
    ELSE IF 510 <= n /\ n < 580 THEN <<Rat(n - 510, 70), Rat(1, 1), Rat(0, 1)>>
    ELSE IF 580 <= n /\ n < 645 THEN <<Rat(1, 1), Rat(645 - n, 65), Rat(0, 1)>>
    ELSE IF 645 <= n /\ n <= 750 THEN <<Rat(1, 1), Rat(0, 1), Rat(0, 1)>>
    ELSE <<Rat(1, 2), Rat(1, 2), Rat(1, 2)>>

\* lines 46-53: the brightness factor; 0.3 + 0.7*(n-380)/40 = (120 + 7*(n-380))/400
Factor(n) ==
    IF 380 <= n /\ n < 420 THEN Rat(120 + 7 * (n - 380), 400)
    ELSE IF 420 <= n /\ n < 700 THEN Rat(1, 1)
    ELSE IF 700 <= n /\ n <= 750 THEN Rat(150 + 7 * (750 - n), 500)
    ELSE Rat(0, 1)

\* fault variant of Channel: the product truncated instead of rounded
ChannelFloor(c, f) == (255 * c.num * f.num) \div (c.den * f.den)

\* lines 55-57: round(255 * channel * factor)
Channel(c, f) == PyRound(255 * c.num * f.num, c.den * f.den)

\* the whole function
wavelength_to_rgb(n) ==
    LET raw == RawRGB(n)
        f   == Factor(n)
    IN  <<Channel(raw[1], f), Channel(raw[2], f), Channel(raw[3], f)>>

(***************************************************************************)
(* Program constants.                                                      *)
(***************************************************************************)
\* np.linspace(0, 3000, 3000): XCount samples from 0 to XMax
XCount == 3000
XMax == 3000
\* self.time += 0.01: one unit of model time
TimeStep == 1
\* the reference wavelength of the dispersion term, 550 / wl_nm
RefWavelength == 550
\* 0.0006 and 0.0008, in units of 1/10000
Cauchy2 == 6
Cauchy3 == 8

\* the 0-based indices of the position samples
SampleIdx == 0 .. (XCount - 1)
\* fault variant of XNum: the samples at the integers, x[i] = i (np.arange)
XNumIntegers(i) == i * (XCount - 1)

\* sample i is XNum(i) / XDen
XNum(i) == i * XMax
XDen == XCount - 1

\* self.prism_wavelengths (line 174)
prism_wavelengths == <<400, 450, 500, 550, 600, 650, 700>>

(***************************************************************************)
(* WaveSimulationWidget.__init__ (lines 85-101, 130-132): the fields.      *)
(* n1, n2, n3 in units of 1/10000; visualization_scale in tenths; time in  *)
(* units of 0.01; y_range is the half-height set by setYRange, a rational  *)
(* in lowest terms.                                                        *)
(***************************************************************************)
InitWidget ==
    [wavelength |-> 550, amplitude |-> 5, speed |-> 2, visualization_scale |-> 1,
     n1 |-> 10003, n2 |-> 13300, n3 |-> 15200, time |-> 0,
     prism_mode |-> FALSE, white_light |-> FALSE,
     boundary1 |-> 1000, boundary2 |-> 2000,
     current_medium1 |-> "Air", current_medium2 |-> "Water",
     current_medium3 |-> "Glass (Crown)",
     medium1_label |-> <<"Air", 10003>>, medium2_label |-> <<"Water", 13300>>,
     medium3_label |-> <<"Glass (Crown)", 15200>>,
     medium1_brush |-> "Air", medium2_brush |-> "Water",
     medium3_brush |-> "Glass (Crown)",
     y_range |-> Rat(2, 1), title |-> "Light Wave Refraction Visualization"]

(***************************************************************************)
(* WaveSimulationWidget.calculate_wave (lines 197-242).                    *)
(***************************************************************************)
\* an effective refractive index base + num/den, in units of 1/10000
Index(base, num, den) == [base |-> base, num |-> num, den |-> den]

\* fault variant of N2Eff: the dispersion term added whatever the mode
N2EffAlways(self, wavelength) ==
    Index(self.n2, Cauchy2 * RefWavelength * RefWavelength, wavelength * wavelength)

\* line 210, 214: n2_wl
N2Eff(self, wavelength) ==
    IF self.prism_mode
    THEN Index(self.n2, Cauchy2 * RefWavelength * RefWavelength, wavelength * wavelength)
    ELSE Index(self.n2, 0, 1)

\* line 211, 215: n3_wl
N3Eff(self, wavelength) ==
    IF self.prism_mode
    THEN Index(self.n3, Cauchy3 * RefWavelength * RefWavelength, wavelength * wavelength)
    ELSE Index(self.n3, 0, 1)

\* line 218: the index k1 is computed from, self.n1
N1Used(self, wavelength) == Index(self.n1, 0, 1)

\* lines 218-220: k = (2 * pi * index) / wavelength
WaveNumber(index, wavelength) == [index |-> index, wl |-> wavelength]

\* fault variants of the masks: mask1 with x < boundary1, mask2 with
\* x >= boundary1
mask1_strict(self, i) == XNum(i) < self.boundary1 * XDen

mask2_closed(self, i) == XNum(i) >= self.boundary1 * XDen /\ XNum(i) <= self.boundary2 * XDen

\* lines 225, 230, 236: the three boolean masks, mask[i] for sample i;
\* x <= b is XNum(i) <= b * XDen
mask1(self, i) == XNum(i) <= self.boundary1 * XDen

mask2(self, i) == XNum(i) > self.boundary1 * XDen /\ XNum(i) <= self.boundary2 * XDen

mask3(self, i) == XNum(i) > self.boundary2 * XDen

\* k * d - omega * time, d = dnum / XDen; carry is the sequence of the phase
\* terms added to it (none in the code)
PhaseOf(k, dnum, omega, time, carry) ==
    [k |-> k, d |-> dnum, wt |-> omega * time, carry |-> carry]

\* fault variant of Phase2: the phase region 1 reaches at boundary1 (the
\* unused phase1_boundary of line 231) carried into region 2
Phase2Continuous(self, k1, k2, i) ==
    PhaseOf(k2, XNum(i) - self.boundary1 * XDen, self.speed, self.time,
            <<[k |-> k1, d |-> self.boundary1 * XDen]>>)

\* lines 226, 232, 239
Phase1(self, k1, i) == PhaseOf(k1, XNum(i), self.speed, self.time, <<>>)

Phase2(self, k1, k2, i) ==
    PhaseOf(k2, XNum(i) - self.boundary1 * XDen, self.speed, self.time, <<>>)

Phase3(self, k1, k2, k3, i) ==
    PhaseOf(k3, XNum(i) - self.boundary2 * XDen, self.speed, self.time, <<>>)

\* lines 227, 233, 240: amplitude * visualization_scale * sin(phase), written
\* by the formula of the given region
Sample(self, region, phase) ==
    [region |-> region, a |-> self.amplitude * self.visualization_scale,
     phase |-> phase]

\* line 199: an entry of np.zeros_like(self.x)
ZeroSample == [region |-> 0, a |-> 0, phase |-> <<>>]

\* the whole function: the array after the three masked assignments, in order
calculate_wave(self, wavelength) ==
    LET k1 == WaveNumber(N1Used(self, wavelength), wavelength)
        k2 == WaveNumber(N2Eff(self, wavelength), wavelength)
        k3 == WaveNumber(N3Eff(self, wavelength), wavelength)
        w0 == [i \in SampleIdx |-> ZeroSample]
        w1 == [i \in SampleIdx |->
                 IF mask1(self, i) THEN Sample(self, 1, Phase1(self, k1, i))
                 ELSE w0[i]]
        w2 == [i \in SampleIdx |->
                 IF mask2(self, i) THEN Sample(self, 2, Phase2(self, k1, k2, i))
                 ELSE w1[i]]
        w3 == [i \in SampleIdx |->
                 IF mask3(self, i) THEN Sample(self, 3, Phase3(self, k1, k2, k3, i))
                 ELSE w2[i]]
    IN  w3


\* the array a direct call returned, as a function of the call's arguments
Returned(args) ==
    IF args = <<>> THEN <<>> ELSE calculate_wave(args.self, args.wavelength)

\* fault variant of calculate_wave_self: the call advances the clock
calculate_wave_self_advancing(self, wavelength) == [self EXCEPT !.time = @ + TimeStep]

\* the fields of self after a call of calculate_wave: it assigns none
calculate_wave_self(self, wavelength) == self

(***************************************************************************)
(* The curves.  setData(self.x, wave) keeps the whole array; the model     *)
(* keeps the curve's samples at the indices Probes: the two ends of the    *)
(* axis and the two samples around each default boundary.                  *)
(***************************************************************************)
Probes == {0, 999, 1000, 1999, 2000, XCount - 1}

CurveData(w) == [i \in Probes |-> w[i]]

\* pg.mkPen('b'): the colour of the single curve at construction (line 170)
PenBlue == <<0, 0, 255>>

\* lines 169-170
InitWaveCurve ==
    [data |-> CurveData(calculate_wave(InitWidget, InitWidget.wavelength)),
     pen |-> PenBlue, visible |-> TRUE]

\* lines 173-190: one (wl, curve) per prism wavelength, hidden
InitWaveCurves ==
    [k \in 1 .. Len(prism_wavelengths) |->
        [wl |-> prism_wavelengths[k],
         data |-> CurveData(calculate_wave(InitWidget, prism_wavelengths[k])),
         pen |-> wavelength_to_rgb(prism_wavelengths[k]),
         visible |-> FALSE]]

(***************************************************************************)
(* LightSimulationApp.__init__ and setup_wave_controls (lines 379-632).    *)
(***************************************************************************)
\* lines 380-391, in units of 1/10000
medium_presets ==
    [m \in {"Air", "Water", "Glass (Crown)", "Glass (Flint)", "Diamond", "Acrylic",
            "Glycerine", "Ethanol", "Quartz", "Sapphire"} |->
        CASE m = "Air" -> 10003
          [] m = "Water" -> 13300
          [] m = "Glass (Crown)" -> 15200
          [] m = "Glass (Flint)" -> 16200
          [] m = "Diamond" -> 24200
          [] m = "Acrylic" -> 14900
          [] m = "Glycerine" -> 14700
          [] m = "Ethanol" -> 13600
          [] m = "Quartz" -> 15400
          [] m = "Sapphire" -> 17700]

Media == DOMAIN medium_presets

\* lines 394-400; the arrow of the scenario names is written ->
scenario_materials ==
    [s \in {"Air -> Water -> Glass", "Air -> Glass -> Water", "Water -> Air -> Glass",
            "Air -> Diamond -> Glass", "Glass -> Air -> Water"} |->
        CASE s = "Air -> Water -> Glass" -> <<"Air", "Water", "Glass (Crown)">>
          [] s = "Air -> Glass -> Water" -> <<"Air", "Glass (Crown)", "Water">>
          [] s = "Water -> Air -> Glass" -> <<"Water", "Air", "Glass (Crown)">>
          [] s = "Air -> Diamond -> Glass" -> <<"Air", "Diamond", "Glass (Crown)">>
          [] s = "Glass -> Air -> Water" -> <<"Glass (Crown)", "Air", "Water">>]

Scenarios == DOMAIN scenario_materials

\* Qt.Unchecked and Qt.Checked
Unchecked == 0
Checked == 2

\* the controls after setup_wave_controls; zoom_value is the label in tenths
\* ("1.0x" is 10).  medium1_combo is filled from
\* sorted(medium_presets) and never set, so it shows the first item, Acrylic
\* (lines 529-532); medium2_combo and medium3_combo are set (558, 585);
\* scenario_combo shows its first item (608-610)
InitApp ==
    [wavelength_slider |-> 550, wavelength_value |-> 550,
     amplitude_slider |-> 5, amplitude_value |-> 20,
     speed_slider |-> 2, speed_value |-> 2,
     zoom_slider |-> 10, zoom_value |-> 10,
     n1_slider |-> 100, n1_value |-> 10003,
     n2_slider |-> 133, n2_value |-> 13300,
     n3_slider |-> 152, n3_value |-> 15200,
     medium1_combo |-> "Acrylic", medium2_combo |-> "Water",
     medium3_combo |-> "Glass (Crown)",
     scenario_combo |-> "Air -> Water -> Glass",
     prism_mode_check |-> Unchecked, white_light_check |-> Unchecked]

\* the part of the program an operation works on
World == [widget |-> widget, wave_curve |-> wave_curve, wave_curves |-> wave_curves,
          app |-> app, calls |-> <<>>]

(***************************************************************************)
(* WaveSimulationWidget: update_animation, update_plot and the setters     *)
(* (lines 244-337).  Each maps a world to the world after the call.        *)
(***************************************************************************)
\* lines 250-252: the loop over self.wave_curves, from curve k on
RECURSIVE AnimateCurves(_, _)
AnimateCurves(w, k) ==
    IF k > Len(w.wave_curves) THEN w
    ELSE LET wl == w.wave_curves[k].wl
             wv == calculate_wave(w.widget, wl)
         IN  AnimateCurves(
                 [w EXCEPT !.widget = calculate_wave_self(w.widget, wl),
                           !.calls = Append(@, wl),
                           !.wave_curves[k].data = CurveData(wv)],
                 k + 1)

\* lines 255-256: the single curve
AnimateSingle(w) ==
    LET wv == calculate_wave(w.widget, w.widget.wavelength)
    IN  [w EXCEPT !.widget = calculate_wave_self(w.widget, w.widget.wavelength),
                  !.calls = Append(@, w.widget.wavelength),
                  !.wave_curve.data = CurveData(wv)]

\* fault variant of AdvanceTime: the clock advanced in single-wave mode only
AdvanceTimeSingleOnly(w) ==
    IF w.widget.white_light THEN w ELSE [w EXCEPT !.widget.time = @ + TimeStep]

\* line 246
AdvanceTime(w) == [w EXCEPT !.widget.time = @ + TimeStep]

update_animation(w) ==
    LET w1 == AdvanceTime(w)
    IN  IF w1.widget.white_light THEN AnimateCurves(w1, 1) ELSE AnimateSingle(w1)

\* fault variant of update_plot: the single curve also recomputed and redrawn
update_plot_redraw(w) ==
    LET s == w.widget
    IN  [w EXCEPT !.widget.medium1_label = <<s.current_medium1, s.n1>>,
                  !.widget.medium2_label = <<s.current_medium2, s.n2>>,
                  !.widget.medium3_label = <<s.current_medium3, s.n3>>,
                  !.widget.medium1_brush = s.current_medium1,
                  !.widget.medium2_brush = s.current_medium2,
                  !.widget.medium3_brush = s.current_medium3,
                  !.wave_curve.pen = IF ~s.white_light
                                     THEN wavelength_to_rgb(s.wavelength) ELSE @,
                  !.wave_curve.data = CurveData(calculate_wave(s, s.wavelength))]

\* lines 258-273
update_plot(w) ==
    LET s == w.widget
    IN  [w EXCEPT !.widget.medium1_label = <<s.current_medium1, s.n1>>,
                  !.widget.medium2_label = <<s.current_medium2, s.n2>>,
                  !.widget.medium3_label = <<s.current_medium3, s.n3>>,
                  !.widget.medium1_brush = s.current_medium1,
                  !.widget.medium2_brush = s.current_medium2,
                  !.widget.medium3_brush = s.current_medium3,
                  !.wave_curve.pen = IF ~s.white_light
                                     THEN wavelength_to_rgb(s.wavelength) ELSE @]

\* lines 276-278
update_wavelength(w, value) == update_plot([w EXCEPT !.widget.wavelength = value])

\* lines 280-289: self.parent is Qt's method parent(), which has no attribute
\* zoom_slider, so the else branch sets the range to (-1, 1)
update_amplitude(w, value) ==
    [w EXCEPT !.widget.amplitude = value, !.widget.y_range = Rat(1, 1)]

\* lines 291-292
update_speed(w, value) == [w EXCEPT !.widget.speed = value]

\* lines 294-304
update_n1(w, value) == update_plot([w EXCEPT !.widget.n1 = value])

update_n2(w, value) == update_plot([w EXCEPT !.widget.n2 = value])

update_n3(w, value) == update_plot([w EXCEPT !.widget.n3 = value])

\* lines 306-316
update_medium1(w, medium_name) ==
    update_plot([w EXCEPT !.widget.current_medium1 = medium_name])

update_medium2(w, medium_name) ==
    update_plot([w EXCEPT !.widget.current_medium2 = medium_name])

update_medium3(w, medium_name) ==
    update_plot([w EXCEPT !.widget.current_medium3 = medium_name])

\* lines 318-321
toggle_prism_mode(w, enabled) == update_plot([w EXCEPT !.widget.prism_mode = enabled])

\* fault variant of toggle_white_light: the single curve left as it was
toggle_white_light_curves_only(w, enabled) ==
    [w EXCEPT !.widget.white_light = enabled,
              !.wave_curves = [k \in DOMAIN @ |-> [@[k] EXCEPT !.visible = enabled]],
              !.widget.title = IF enabled THEN "White Light Dispersion (Prism Effect)"
                               ELSE "Light Wave Refraction Visualization"]

\* lines 323-337
toggle_white_light(w, enabled) ==
    [w EXCEPT !.widget.white_light = enabled,
              !.wave_curve.visible = ~enabled,
              !.wave_curves = [k \in DOMAIN @ |-> [@[k] EXCEPT !.visible = enabled]],
              !.widget.title = IF enabled THEN "White Light Dispersion (Prism Effect)"
                               ELSE "Light Wave Refraction Visualization"]


(***************************************************************************)
(* LightSimulationApp: the control handlers (lines 644-719) and the Qt     *)
(* widgets that call them.  QSlider.setValue clamps the value to the       *)
(* slider's range and emits valueChanged only when the value changes;      *)
(* QComboBox.setCurrentText emits currentTextChanged only when the text    *)
(* changes.                                                                *)
(***************************************************************************)
Clamp(v, lo, hi) == IF v < lo THEN lo ELSE IF v > hi THEN hi ELSE v

\* the slider ranges (lines 459-460, 473-474, 487-488, 501-502, 538-539)
WavelengthMin == 380
WavelengthMax == 750
AmplitudeMin == 1
AmplitudeMax == 10
SpeedMin == 1
SpeedMax == 10
ZoomMin == 1
ZoomMax == 20
NMin == 100
NMax == 300

\* fault variant of SliderToIndex: the slider read as an offset from its minimum
SliderToIndexOffset(value) == (value - NMin) * 100

\* value / 100 (lines 661, 667, 673), in units of 1/10000
SliderToIndex(value) == value * 100

\* int(n * 100) (lines 680, 686, 692), n in units of 1/10000
IndexToSlider(n) == n \div 100

\* lines 644-647
App_update_wavelength(w, value) ==
    update_wavelength([w EXCEPT !.app.wavelength_value = value], value)

\* lines 649-652
App_update_amplitude(w, value) ==
    update_amplitude([w EXCEPT !.app.amplitude_value = value], value)

\* lines 654-657
App_update_speed(w, value) ==
    update_speed([w EXCEPT !.app.speed_value = value], value)

\* lines 697-704: zoom_factor = value / 10.0; the label shows it with one
\* decimal, which is value tenths; setYRange(-y_range, y_range) with
\* y_range = amplitude * 1.5 / zoom_factor = 15 * amplitude / value
App_update_zoom(w, value) ==
    [w EXCEPT !.app.zoom_value = value,
              !.widget.y_range = Lowest(15 * w.widget.amplitude, value)]

\* lines 659-675
App_update_n1(w, value) ==
    LET n == SliderToIndex(value)
    IN  update_n1([w EXCEPT !.app.n1_value = n], n)

App_update_n2(w, value) ==
    LET n == SliderToIndex(value)
    IN  update_n2([w EXCEPT !.app.n2_value = n], n)

App_update_n3(w, value) ==
    LET n == SliderToIndex(value)
    IN  update_n3([w EXCEPT !.app.n3_value = n], n)

\* QSlider.setValue of the three index sliders, connected at lines 621-623
n1_slider_setValue(w, v) ==
    LET c == Clamp(v, NMin, NMax)
    IN  IF c = w.app.n1_slider THEN w
        ELSE App_update_n1([w EXCEPT !.app.n1_slider = c], c)

n2_slider_setValue(w, v) ==
    LET c == Clamp(v, NMin, NMax)
    IN  IF c = w.app.n2_slider THEN w
        ELSE App_update_n2([w EXCEPT !.app.n2_slider = c], c)

n3_slider_setValue(w, v) ==
    LET c == Clamp(v, NMin, NMax)
    IN  IF c = w.app.n3_slider THEN w
        ELSE App_update_n3([w EXCEPT !.app.n3_slider = c], c)

\* lines 677-693
App_update_medium1(w, medium_name) ==
    LET n == medium_presets[medium_name]
    IN  update_medium1(n1_slider_setValue(w, IndexToSlider(n)), medium_name)

App_update_medium2(w, medium_name) ==
    LET n == medium_presets[medium_name]
    IN  update_medium2(n2_slider_setValue(w, IndexToSlider(n)), medium_name)

App_update_medium3(w, medium_name) ==
    LET n == medium_presets[medium_name]
    IN  update_medium3(n3_slider_setValue(w, IndexToSlider(n)), medium_name)

\* QComboBox.setCurrentText of the three medium combos, connected at 625-627
medium1_combo_setCurrentText(w, text) ==
    IF text = w.app.medium1_combo THEN w
    ELSE App_update_medium1([w EXCEPT !.app.medium1_combo = text], text)

medium2_combo_setCurrentText(w, text) ==
    IF text = w.app.medium2_combo THEN w
    ELSE App_update_medium2([w EXCEPT !.app.medium2_combo = text], text)

medium3_combo_setCurrentText(w, text) ==
    IF text = w.app.medium3_combo THEN w
    ELSE App_update_medium3([w EXCEPT !.app.medium3_combo = text], text)

\* lines 707-710
App_toggle_white_light(w, state) == toggle_white_light(w, state = Checked)

\* lines 712-719
apply_scenario(w) ==
    LET scenario == w.app.scenario_combo
        m == scenario_materials[scenario]
        w1 == medium1_combo_setCurrentText(w, m[1])
        w2 == medium2_combo_setCurrentText(w1, m[2])
    IN  medium3_combo_setCurrentText(w2, m[3])

\* a click on a two-state QCheckBox
Flip(state) == IF state = Checked THEN Unchecked ELSE Checked


(***************************************************************************)
(* The state after construction (LightSimulationApp.__init__, which builds *)
(* the widget at line 419).  The constructor of the widget calls           *)
(* calculate_wave for the single curve and for each prism wavelength.      *)
(***************************************************************************)
InitProgram ==
    /\ widget = InitWidget
    /\ wave_curve = InitWaveCurve
    /\ wave_curves = InitWaveCurves
    /\ app = InitApp
    /\ calls = <<InitWidget.wavelength>> \o prism_wavelengths
    /\ ticks = 0
    /\ events = 0
    /\ last = "init"

NoColourCall == nm = 0 /\ rgb = <<>>

NoWaveCall == wave_args = <<>> /\ prev_args = <<>>

\* the variables take the values of the world w after the operation `name`
Commit(w, name) ==
    /\ widget' = w.widget
    /\ wave_curve' = w.wave_curve
    /\ wave_curves' = w.wave_curves
    /\ app' = w.app
    /\ calls' = w.calls
    /\ last' = name
    /\ UNCHANGED <<nm, rgb, wave_args, prev_args>>

\* a control event: one more event, no tick
Event(w, name) ==
    /\ events < MaxEvents
    /\ events' = events + 1
    /\ UNCHANGED ticks
    /\ Commit(w, name)

(***************************************************************************)
(* The inputs of the control events and of the direct calls.               *)
(***************************************************************************)
WavelengthInputs == {WavelengthMin, WavelengthMax}
AmplitudeInputs == {AmplitudeMax}
SpeedInputs == {SpeedMax}
ZoomInputs == {ZoomMin, ZoomMax}
NInputs == {NMin, NMax}
MediumInputs == {"Air", "Diamond"}
ScenarioInputs == {"Air -> Diamond -> Glass", "Glass -> Air -> Water"}

(***************************************************************************)
(* Spec: the application.  The user moves a slider, picks an item of a     *)
(* combo, clicks a check box or the Apply button; the timer ticks.         *)
(***************************************************************************)
\* the timer's timeout, connected to update_animation (line 194)
Tick ==
    /\ ticks < MaxTicks
    /\ ticks' = ticks + 1
    /\ UNCHANGED events
    /\ Commit(update_animation(World), "update_animation")

\* wavelength_slider.valueChanged (line 617)
MoveWavelengthSlider(v) ==
    /\ v # app.wavelength_slider
    /\ Event(App_update_wavelength([World EXCEPT !.app.wavelength_slider = v], v),
             "wavelength_slider")

\* amplitude_slider.valueChanged (line 618)
MoveAmplitudeSlider(v) ==
    /\ v # app.amplitude_slider
    /\ Event(App_update_amplitude([World EXCEPT !.app.amplitude_slider = v], v),
             "amplitude_slider")

\* speed_slider.valueChanged (line 619)
MoveSpeedSlider(v) ==
    /\ v # app.speed_slider
    /\ Event(App_update_speed([World EXCEPT !.app.speed_slider = v], v),
             "speed_slider")

\* zoom_slider.valueChanged (line 511)
MoveZoomSlider(v) ==
    /\ v # app.zoom_slider
    /\ Event(App_update_zoom([World EXCEPT !.app.zoom_slider = v], v),
             "zoom_slider")

\* n1_slider, n2_slider, n3_slider.valueChanged (lines 621-623)
MoveN1Slider(v) ==
    /\ v # app.n1_slider
    /\ Event(n1_slider_setValue(World, v), "n1_slider")

MoveN2Slider(v) ==
    /\ v # app.n2_slider
    /\ Event(n2_slider_setValue(World, v), "n2_slider")

MoveN3Slider(v) ==
    /\ v # app.n3_slider
    /\ Event(n3_slider_setValue(World, v), "n3_slider")

\* medium1_combo, medium2_combo, medium3_combo.currentTextChanged (lines 625-627)
SelectMedium1(m) ==
    /\ m # app.medium1_combo
    /\ Event(medium1_combo_setCurrentText(World, m), "medium1_combo")

SelectMedium2(m) ==
    /\ m # app.medium2_combo
    /\ Event(medium2_combo_setCurrentText(World, m), "medium2_combo")

SelectMedium3(m) ==
    /\ m # app.medium3_combo
    /\ Event(medium3_combo_setCurrentText(World, m), "medium3_combo")

\* scenario_combo has no handler: picking a scenario changes the combo only
SelectScenario(s) ==
    /\ s # app.scenario_combo
    /\ Event([World EXCEPT !.app.scenario_combo = s], "scenario_combo")

\* apply_button.clicked (line 632)
ClickApply == Event(apply_scenario(World), "apply_scenario")

\* white_light_check.stateChanged (line 630)
ClickWhiteLight ==
    LET state == Flip(app.white_light_check)
    IN  Event(App_toggle_white_light([World EXCEPT !.app.white_light_check = state],
                                     state),
              "white_light_check")

\* prism_mode_check.stateChanged is connected to nothing (lines 616-632): a
\* click changes the check box only
ClickPrismMode ==
    Event([World EXCEPT !.app.prism_mode_check = Flip(@)], "prism_mode_check")

\* tabs.currentChanged (line 436) is connected after the only tab is added
\* (line 432): with one tab it is not emitted again, and on_tab_changed does
\* not run
Init == InitProgram /\ NoColourCall /\ NoWaveCall

Next ==
    \/ Tick
    \/ \E v \in WavelengthInputs : MoveWavelengthSlider(v)
    \/ \E v \in AmplitudeInputs : MoveAmplitudeSlider(v)
    \/ \E v \in SpeedInputs : MoveSpeedSlider(v)
    \/ \E v \in ZoomInputs : MoveZoomSlider(v)
    \/ \E v \in NInputs : MoveN1Slider(v)
    \/ \E v \in NInputs : MoveN2Slider(v)
    \/ \E v \in NInputs : MoveN3Slider(v)
    \/ \E m \in MediumInputs : SelectMedium1(m)
    \/ \E m \in MediumInputs : SelectMedium2(m)
    \/ \E m \in MediumInputs : SelectMedium3(m)
    \/ \E s \in ScenarioInputs : SelectScenario(s)
    \/ ClickApply
    \/ ClickWhiteLight
    \/ ClickPrismMode

Spec == Init /\ [][Next]_vars

(***************************************************************************)
(* SpecRGB: wavelength_to_rgb applied to one wavelength.                   *)
(***************************************************************************)
NmInputs == (WavelengthMin - NmMargin) .. (WavelengthMax + NmMargin)

InitRGB == InitProgram /\ NoWaveCall /\ nm \in NmInputs /\ rgb = <<>>

Call_wavelength_to_rgb ==
    /\ rgb = <<>>
    /\ rgb' = wavelength_to_rgb(nm)
    /\ last' = "wavelength_to_rgb"
    /\ UNCHANGED <<widget, wave_curve, wave_curves, app, calls, ticks, events,
                   nm, wave_args, prev_args>>

NextRGB == Call_wavelength_to_rgb

SpecRGB == InitRGB /\ [][NextRGB]_vars


(***************************************************************************)
(* SpecWidget: the methods of WaveSimulationWidget called directly, and    *)
(* the tick.                                                               *)
(***************************************************************************)
Call_update_wavelength(v) == Event(update_wavelength(World, v), "update_wavelength")

Call_update_amplitude(v) == Event(update_amplitude(World, v), "update_amplitude")

Call_update_speed(v) == Event(update_speed(World, v), "update_speed")

Call_update_n1(v) == Event(update_n1(World, SliderToIndex(v)), "update_n1")

Call_update_n2(v) == Event(update_n2(World, SliderToIndex(v)), "update_n2")

Call_update_n3(v) == Event(update_n3(World, SliderToIndex(v)), "update_n3")

Call_update_medium1(m) == Event(update_medium1(World, m), "update_medium1")

Call_update_medium2(m) == Event(update_medium2(World, m), "update_medium2")

Call_update_medium3(m) == Event(update_medium3(World, m), "update_medium3")

Call_toggle_prism_mode(b) == Event(toggle_prism_mode(World, b), "toggle_prism_mode")

Call_toggle_white_light(b) == Event(toggle_white_light(World, b), "toggle_white_light")

NextWidget ==
    \/ Tick
    \/ \E v \in WavelengthInputs : Call_update_wavelength(v)
    \/ \E v \in AmplitudeInputs : Call_update_amplitude(v)
    \/ \E v \in SpeedInputs : Call_update_speed(v)
    \/ \E v \in NInputs : Call_update_n1(v)
    \/ \E v \in NInputs : Call_update_n2(v)
    \/ \E v \in NInputs : Call_update_n3(v)
    \/ \E m \in MediumInputs : Call_update_medium1(m)
    \/ \E m \in MediumInputs : Call_update_medium2(m)
    \/ \E m \in MediumInputs : Call_update_medium3(m)
    \/ \E b \in BOOLEAN : Call_toggle_prism_mode(b)
    \/ \E b \in BOOLEAN : Call_toggle_white_light(b)

SpecWidget == Init /\ [][NextWidget]_vars

(***************************************************************************)
(* SpecWave: calculate_wave called directly on a widget whose boundaries   *)
(* and time are drawn from the sets below, the parameters changed between  *)
(* the calls by the widget's setters.                                      *)
(***************************************************************************)
\* (boundary1, boundary2): the defaults, the whole axis, the last interval,
\* and two pairs with boundary1 >= boundary2
WaveBoundaries == {<<1000, 2000>>, <<0, 3000>>, <<2999, 3000>>, <<2000, 1000>>, <<0, 0>>}
WaveTimes == {0, 5}
WaveWavelengths == {400, 700}
WaveIndexInputs == {SliderToIndex(150)}

InitWave ==
    /\ \E b \in WaveBoundaries, t \in WaveTimes :
          widget = [InitWidget EXCEPT !.boundary1 = b[1], !.boundary2 = b[2],
                                      !.time = t]
    /\ wave_curve = InitWaveCurve
    /\ wave_curves = InitWaveCurves
    /\ app = InitApp
    /\ calls = <<>>
    /\ ticks = 0
    /\ events = 0
    /\ last = "init"
    /\ NoColourCall
    /\ NoWaveCall

\* wave = self.calculate_wave(wavelength): the call is recorded with the
\* fields of self it reads; the array it returns is wave, below
Call_calculate_wave(wl) ==
    /\ Len(calls) < MaxCalls
    /\ wave_args' = [self |-> widget, wavelength |-> wl]
    /\ prev_args' = wave_args
    /\ widget' = calculate_wave_self(widget, wl)
    /\ calls' = Append(calls, wl)
    /\ last' = "calculate_wave"
    /\ UNCHANGED <<wave_curve, wave_curves, app, ticks, events, nm, rgb>>

\* a setter called between the calls
WaveSet(w, name) ==
    /\ events < MaxWaveSets
    /\ events' = events + 1
    /\ widget' = w.widget
    /\ wave_curve' = w.wave_curve
    /\ wave_curves' = w.wave_curves
    /\ last' = name
    /\ UNCHANGED <<app, calls, ticks, nm, rgb, wave_args, prev_args>>

WaveSet_n1(v) == WaveSet(update_n1(World, v), "update_n1")

WaveSet_n2(v) == WaveSet(update_n2(World, v), "update_n2")

WaveSet_prism_mode(b) == WaveSet(toggle_prism_mode(World, b), "toggle_prism_mode")

NextWave ==
    \/ \E wl \in WaveWavelengths : Call_calculate_wave(wl)
    \/ \E v \in WaveIndexInputs : WaveSet_n1(v)
    \/ \E v \in WaveIndexInputs : WaveSet_n2(v)
    \/ WaveSet_prism_mode(TRUE)

SpecWave == InitWave /\ [][NextWave]_vars

\* the arrays returned by the last direct call and by the one before it
wave == Returned(wave_args)

prev_wave == Returned(prev_args)


(***************************************************************************)
(* Properties.                                                             *)
(***************************************************************************)
\* the call of wavelength_to_rgb has returned
ColourReturned == rgb # <<>>

\* C1: wavelength_to_rgb returns the neutral gray (128,128,128) for every
\* wavelength outside [380,750]: the out-of-spectrum branch bypasses the
\* brightness factor.  (Stated as claimed; the code multiplies the gray by
\* the factor 0.)
C1_OutOfSpectrumIsGray ==
    (ColourReturned /\ (nm < 380 \/ nm > 750)) => rgb = <<128, 128, 128>>

\* what the code returns outside [380,750]: black
C1_OutOfSpectrumIsBlack ==
    (ColourReturned /\ (nm < 380 \/ nm > 750)) => rgb = <<0, 0, 0>>

\* the six bands of the claim's table, [lo, hi) but the last, [645, 750]
C10_BandLo == <<380, 440, 490, 510, 580, 645>>
C10_BandHi == <<440, 490, 510, 580, 645, 751>>
C10_InBand(b, n) == C10_BandLo[b] <= n /\ n < C10_BandHi[b]

\* the raw channels of band b as <<numerator, denominator>>
C10_Raw(b, n) ==
    CASE b = 1 -> <<<<440 - n, 60>>, <<0, 1>>, <<1, 1>>>>
      [] b = 2 -> <<<<0, 1>>, <<n - 440, 50>>, <<1, 1>>>>
      [] b = 3 -> <<<<0, 1>>, <<1, 1>>, <<510 - n, 20>>>>
      [] b = 4 -> <<<<n - 510, 70>>, <<1, 1>>, <<0, 1>>>>
      [] b = 5 -> <<<<1, 1>>, <<645 - n, 65>>, <<0, 1>>>>
      [] b = 6 -> <<<<1, 1>>, <<0, 1>>, <<0, 1>>>>

\* the factor in tenths: 3 + 7*(n-380)/40 on [380,420), 10 on [420,700),
\* 3 + 7*(750-n)/50 on [700,750], as <<numerator, denominator>> of the factor
C10_Factor(n) ==
    IF n < 420 THEN <<3 * 40 + 7 * (n - 380), 10 * 40>>
    ELSE IF n < 700 THEN <<1, 1>>
    ELSE <<3 * 50 + 7 * (750 - n), 10 * 50>>

C10_Expected(b, n) ==
    LET raw == C10_Raw(b, n)
        f == C10_Factor(n)
    IN  [c \in 1 .. 3 |-> PyRound(255 * raw[c][1] * f[1], raw[c][2] * f[2])]

\* C10: for every integer wavelength in [380,750] wavelength_to_rgb selects
\* exactly one of the six bands and returns round(255*raw*factor) per channel,
\* with the factor ramping 0.3 to 1.0 over [380,420), 1.0 over [420,700) and
\* 1.0 to 0.3 over [700,750]; every channel is an integer in [0,255];
\* wavelength_to_rgb(650) = (255,0,0) and wavelength_to_rgb(550) = (146,255,0).
C10_BandsAndRounding ==
    (ColourReturned /\ 380 <= nm /\ nm <= 750) =>
        /\ Cardinality({b \in 1 .. 6 : C10_InBand(b, nm)}) = 1
        /\ \A b \in 1 .. 6 : C10_InBand(b, nm) => rgb = C10_Expected(b, nm)
        /\ \A c \in 1 .. 3 : rgb[c] \in 0 .. 255
        /\ (nm = 650 => rgb = <<255, 0, 0>>)
        /\ (nm = 550 => rgb = <<146, 255, 0>>)

C10_Witness == ColourReturned /\ nm = 550 /\ rgb = <<146, 255, 0>>


(***************************************************************************)
(* Properties of calculate_wave (SpecWave).                                *)
(***************************************************************************)
\* a direct call of calculate_wave has just returned
WaveReturned == last = "calculate_wave" /\ wave_args # <<>>

\* the simulation parameters of a widget
Params(self) ==
    [wavelength |-> self.wavelength, amplitude |-> self.amplitude,
     speed |-> self.speed, n1 |-> self.n1, n2 |-> self.n2, n3 |-> self.n3,
     boundary1 |-> self.boundary1, boundary2 |-> self.boundary2,
     prism_mode |-> self.prism_mode, white_light |-> self.white_light,
     time |-> self.time]

\* the regions of the claim: 1 is x <= boundary1, 2 is boundary1 < x <= boundary2,
\* 3 is x > boundary2, for the sample x = i * 3000 / 2999
C2_InRegion(r, b1, b2, i) ==
    CASE r = 1 -> i * 3000 <= b1 * 2999
      [] r = 2 -> b1 * 2999 < i * 3000 /\ i * 3000 <= b2 * 2999
      [] r = 3 -> i * 3000 > b2 * 2999

\* the masks of the code that hold of sample i
C2_MasksOf(self, i) ==
    (IF mask1(self, i) THEN {1} ELSE {})
        \cup (IF mask2(self, i) THEN {2} ELSE {})
        \cup (IF mask3(self, i) THEN {3} ELSE {})

\* C2: for every boundary1 < boundary2 within [0,3000] the three masks are
\* pairwise disjoint and cover every sample: each sample is in exactly one
\* mask, that of its region, its value is written by that region's formula,
\* and the output has one value per position sample, in position order.
C2_MasksPartition ==
    (/\ WaveReturned
     /\ 0 <= wave_args.self.boundary1
     /\ wave_args.self.boundary1 < wave_args.self.boundary2
     /\ wave_args.self.boundary2 <= 3000) =>
        LET self == wave_args.self
            wv == wave
        IN  /\ DOMAIN wv = 0 .. 2999
            /\ \A i \in 0 .. 2999 :
                  LET ms == C2_MasksOf(self, i)
                  IN  /\ Cardinality(ms) = 1
                      /\ \A r \in ms :
                            /\ C2_InRegion(r, self.boundary1, self.boundary2, i)
                            /\ wv[i].region = r

C2_Witness ==
    /\ WaveReturned
    /\ wave_args.self.boundary1 = 1000 /\ wave_args.self.boundary2 = 2000
    /\ wave[999].region = 1 /\ wave[1000].region = 2
    /\ wave[1999].region = 2 /\ wave[2000].region = 3

\* an/ad < bn/bd for non-negative numerators and positive denominators,
\* without forming the cross products
RECURSIVE FracLess(_, _, _, _)
FracLess(an, ad, bn, bd) ==
    LET qa == an \div ad
        qb == bn \div bd
        ra == an % ad
        rb == bn % bd
    IN  IF qa # qb THEN qa < qb
        ELSE IF rb = 0 THEN FALSE
        ELSE IF ra = 0 THEN TRUE
        ELSE FracLess(bd, rb, ad, ra)

\* the value of index a is less than the value of index b
IndexLess(a, b) ==
    LET wa == a.base + (a.num \div a.den)
        wb == b.base + (b.num \div b.den)
    IN  IF wa # wb THEN wa < wb
        ELSE FracLess(a.num % a.den, a.den, b.num % b.den, b.den)

\* the index the wavenumber of sample i of the array w was computed from
IndexAt(w, i) == w[i].phase.k.index

\* the index the claim gives region r: n1; n2 or n3 without dispersion;
\* n2 + 0.0006*(550/wl)^2 or n3 + 0.0008*(550/wl)^2 with it
C3_ClaimedIndex(self, wl, r) ==
    CASE r = 1 -> [base |-> self.n1, num |-> 0, den |-> 1]
      [] r = 2 /\ ~self.prism_mode -> [base |-> self.n2, num |-> 0, den |-> 1]
      [] r = 3 /\ ~self.prism_mode -> [base |-> self.n3, num |-> 0, den |-> 1]
      [] r = 2 /\ self.prism_mode ->
            [base |-> self.n2, num |-> 6 * 550 * 550, den |-> wl * wl]
      [] r = 3 /\ self.prism_mode ->
            [base |-> self.n3, num |-> 8 * 550 * 550, den |-> wl * wl]

\* C3: with dispersion off n2_eff = n2 and n3_eff = n3 for every wavelength;
\* with dispersion on n2_eff = n2 + 0.0006*(550/wavelength)^2 and
\* n3_eff = n3 + 0.0008*(550/wavelength)^2, so both are strictly larger at
\* 400 nm than at 700 nm; in both cases medium 1 uses n1 unmodified.
\* (Indices in units of 1/10000: 0.0006 is 6, 0.0008 is 8.)
C3_EffectiveIndices ==
    WaveReturned =>
        LET self == wave_args.self
            wl == wave_args.wavelength
            wv == wave
            pv == prev_wave
            compared == /\ prev_args # <<>>
                        /\ Params(prev_args.self) = Params(self)
                        /\ self.prism_mode
                        /\ prev_args.wavelength = 400 /\ wl = 700
        IN  \A i \in 0 .. 2999 :
                LET s == wv[i]
                IN  /\ s.phase.k.index = C3_ClaimedIndex(self, wl, s.region)
                    /\ (compared /\ s.region \in {2, 3}) =>
                          IndexLess(s.phase.k.index, IndexAt(pv, i))

C3_Witness ==
    /\ WaveReturned
    /\ prev_args # <<>>
    /\ Params(prev_args.self) = Params(wave_args.self)
    /\ wave_args.self.prism_mode
    /\ prev_args.wavelength = 400 /\ wave_args.wavelength = 700
    /\ wave[1000].region = 2 /\ wave[2000].region = 3
    /\ IndexLess(IndexAt(wave, 1000), IndexAt(prev_wave, 1000))
    /\ IndexLess(IndexAt(wave, 2000), IndexAt(prev_wave, 2000))


\* the two last calls had the same wavelength and parameters that differ in
\* the one field f, and only there
DifferOnlyIn(f) ==
    /\ prev_args # <<>>
    /\ prev_args.wavelength = wave_args.wavelength
    /\ Params(prev_args.self)[f] # Params(wave_args.self)[f]
    /\ [Params(prev_args.self) EXCEPT ![f] = Params(wave_args.self)[f]]
          = Params(wave_args.self)

\* the phase k*(x - offset) - speed*time of sample i, nothing carried into it:
\* k from the index idx and the wavelength, x - offset = (i*3000 - offset*2999)/2999
C4_ResetPhase(self, wl, idx, offset, i) ==
    [k |-> [index |-> idx, wl |-> wl], d |-> i * 3000 - offset * 2999,
     wt |-> self.speed * self.time, carry |-> <<>>]

\* C4: the phase of a region-2 sample is k2*(x - boundary1) - speed*time and
\* of a region-3 sample k3*(x - boundary2) - speed*time, with no phase carried
\* over from the preceding region; so for two parameter sets that differ only
\* in n1 the region-2 and region-3 samples are identical, and for two that
\* differ only in n2 the region-1 and region-3 samples are identical.
C4_PhaseReset ==
    WaveReturned =>
        LET self == wave_args.self
            wl == wave_args.wavelength
            wv == wave
            pv == prev_wave
            only1 == DifferOnlyIn("n1")
            only2 == DifferOnlyIn("n2")
        IN  \A i \in 0 .. 2999 :
                LET s == wv[i]
                IN  /\ s.region = 2 =>
                          s.phase = C4_ResetPhase(self, wl, s.phase.k.index,
                                                  self.boundary1, i)
                    /\ s.region = 3 =>
                          s.phase = C4_ResetPhase(self, wl, s.phase.k.index,
                                                  self.boundary2, i)
                    /\ (only1 /\ s.region \in {2, 3}) => s = pv[i]
                    /\ (only2 /\ s.region \in {1, 3}) => s = pv[i]

C4_Witness ==
    /\ WaveReturned
    /\ DifferOnlyIn("n1")
    /\ wave_args.self.time = 5
    /\ wave[999].region = 1 /\ wave[999] # prev_wave[999]
    /\ wave[1000].region = 2 /\ wave[1000] = prev_wave[1000]
    /\ wave[2000].region = 3 /\ wave[2000] = prev_wave[2000]

\* C5: calculate_wave is pure: a call leaves every simulation parameter
\* (wavelength, amplitude, speed, n1, n2, n3, boundary1, boundary2, prism_mode,
\* white_light, time) and the curves unchanged (the position sequence is a
\* constant of the model), and a call that directly follows a call with the
\* same wavelength finds the parameters and the time the first call found and
\* returns the same sequence.
C5_Pure ==
    /\ [][calls' # calls =>
             /\ Params(widget') = Params(widget)
             /\ wave_curve' = wave_curve /\ wave_curves' = wave_curves]_vars
    /\ [][(last = "calculate_wave" /\ calls' # calls
              /\ wave_args'.wavelength = wave_args.wavelength) =>
             /\ Params(wave_args'.self) = Params(wave_args.self)
             /\ wave' = wave]_vars

\* two calls in a row with the same wavelength, at time 0.05
C5_Witness ==
    /\ WaveReturned
    /\ Len(calls) = 2 /\ calls[1] = calls[2]
    /\ events = 0
    /\ prev_args # <<>>
    /\ wave_args.self.time = 5
    /\ Params(prev_args.self) = Params(wave_args.self)
    /\ wave[1000] = prev_wave[1000] /\ wave[1000].phase.wt = 10

\* C8: when boundary1 >= boundary2 calculate_wave still gives every position
\* sample a value computed by a region formula (none keeps the initial zero),
\* and two calls with the same inputs give the same output.
C8_DegradedBoundaries ==
    (WaveReturned /\ wave_args.self.boundary1 >= wave_args.self.boundary2) =>
        LET wv == wave
        IN  /\ DOMAIN wv = 0 .. 2999
            /\ \A i \in 0 .. 2999 : wv[i].region \in 1 .. 3
            /\ (prev_args = wave_args => prev_wave = wv)

C8_Witness ==
    /\ WaveReturned
    /\ wave_args.self.boundary1 = 2000 /\ wave_args.self.boundary2 = 1000
    /\ prev_args = wave_args /\ prev_wave = wave
    /\ wave[0].region = 1 /\ wave[1500].region = 3 /\ wave[2999].region = 3


(***************************************************************************)
(* Properties of the tick, the setters and the controls.                   *)
(***************************************************************************)
\* the sample data of every curve
CurvesData == <<wave_curve.data, [k \in DOMAIN wave_curves |-> wave_curves[k].data]>>

\* C6: every animation tick advances time by exactly the increment 0.01 (one
\* unit) and then calls calculate_wave exactly once, with the primary
\* wavelength, when white-light mode is off, or exactly seven times, once for
\* each of 400,450,500,550,600,650,700 in that order, when it is on; time
\* never decreases and equals 0.01*k after k ticks.
C6_TickAdvancesAndCalls ==
    /\ [](widget.time = ticks)
    /\ [][widget'.time >= widget.time]_vars
    /\ [][ticks' # ticks =>
             /\ ticks' = ticks + 1
             /\ widget'.time = widget.time + 1
             /\ calls' = IF widget.white_light
                         THEN <<400, 450, 500, 550, 600, 650, 700>>
                         ELSE <<widget.wavelength>>]_vars

C6_Witness ==
    /\ last = "update_animation"
    /\ ticks = 2 /\ widget.time = 2
    /\ widget.white_light
    /\ calls = <<400, 450, 500, 550, 600, 650, 700>>

\* C7: no parameter setter (update_wavelength, update_amplitude, update_speed,
\* update_n1/n2/n3, update_medium1/2/3, toggle_prism_mode, toggle_white_light)
\* recomputes by itself: each leaves time and the sample data of every curve
\* unchanged and calls calculate_wave not once; curve data changes only on an
\* animation tick.
C7_SettersDoNotRecompute ==
    /\ [][events' # events =>
             /\ widget'.time = widget.time
             /\ CurvesData' = CurvesData
             /\ calls' = <<>>]_vars
    /\ [][CurvesData' # CurvesData => ticks' # ticks]_vars

C7_Witness ==
    /\ last = "update_n2"
    /\ widget.n2 = 30000
    /\ widget.prism_mode
    /\ ticks = 1
    /\ wave_curve.data[1000].phase.k.index.base = 13300

\* C9: in every state reachable from the initial defaults by control events
\* and ticks, 0 <= boundary1 < boundary2 <= 3000, the refractive indices n1,
\* n2, n3 are all positive, and wavelength lies in [380,750].
C9_ParameterInvariants ==
    /\ 0 <= widget.boundary1
    /\ widget.boundary1 < widget.boundary2
    /\ widget.boundary2 <= 3000
    /\ widget.n1 > 0 /\ widget.n2 > 0 /\ widget.n3 > 0
    /\ 380 <= widget.wavelength /\ widget.wavelength <= 750

C9_Witness ==
    /\ last = "apply_scenario"
    /\ widget.n2 = 10000
    /\ widget.wavelength = 380
    /\ events = 3

(***************************************************************************)
(* Properties of the mode controls and of the presets.                     *)
(***************************************************************************)
\* C11: checking or unchecking the "Enable Dispersion" control sets the
\* widget's prism_mode to the state of the check box, and a waveform computed
\* on a later tick while the box is checked uses the wavelength-adjusted
\* index n2 + 0.0006 * (550 / wl)^2 in region 2.  (Stated as claimed; the
\* check box is connected to no handler.)
C11_DispersionFollowsCheckBox ==
    /\ widget.prism_mode = (app.prism_mode_check = Checked)
    /\ (last = "update_animation" /\ ~widget.white_light
            /\ app.prism_mode_check = Checked)
          => wave_curve.data[1000].phase.k.index = N2EffAlways(widget, widget.wavelength)

\* what the code does: no control event or tick ever sets prism_mode
C11_DispersionNeverEnabled == ~widget.prism_mode

\* C12: curve colour follows wavelength in single-wave mode: after a
\* wavelength change or a white-light toggle that leaves white-light mode off,
\* the pen of the single curve is wavelength_to_rgb(current wavelength), also
\* when the wavelength was changed while white-light mode was on.  (Stated as
\* claimed; toggle_white_light does not set the pen, and the pen set at
\* construction is blue.)
C12_PenFollowsWavelength ==
    (last \in {"wavelength_slider", "white_light_check"} /\ ~widget.white_light)
        => wave_curve.pen = wavelength_to_rgb(widget.wavelength)

\* what the code does: while white-light mode is off the pen is the colour of
\* the wavelength once update_plot has run, and the blue of construction before
C12_PenAfterUpdatePlot ==
    /\ (last = "wavelength_slider" /\ ~widget.white_light)
          => wave_curve.pen = wavelength_to_rgb(widget.wavelength)
    /\ (last = "init") => wave_curve.pen = PenBlue

\* the default parameters of the constructor, at time 0
C13_DefaultParams ==
    /\ widget.wavelength = 550 /\ ~widget.prism_mode
    /\ widget.n1 = 10003 /\ widget.n2 = 13300 /\ widget.n3 = 15200
    /\ widget.boundary1 = 1000 /\ widget.boundary2 = 2000
    /\ widget.amplitude = 5 /\ widget.visualization_scale = 1
    /\ widget.time = 0

\* the sample is amplitude * scale * sin(0)
C13_SinOfZero(s) == s.phase.d = 0 /\ s.phase.wt = 0 /\ s.phase.carry = <<>>

\* C13 as claimed: with the default parameters at time 0 the value at x = 0
\* is 0, and the value at the position exactly equal to boundary1 is the start
\* of the region-2 phase, sin(0 - speed * time) = 0.
C13_ValueAtBoundaryIsRegion2Start ==
    C13_DefaultParams =>
        LET wv == calculate_wave(widget, widget.wavelength)
        IN  /\ wv[0].region = 1 /\ C13_SinOfZero(wv[0])
            /\ \E i \in SampleIdx :
                  /\ XNum(i) = widget.boundary1 * XDen
                  /\ wv[i].region = 2 /\ C13_SinOfZero(wv[i])

\* C13, amended: with the default parameters at time 0 the value at x = 0 is
\* 0; boundary1 lies strictly between the samples 999 and 1000, so no sample
\* is at boundary1; sample 999 is written by region 1 with the phase k1 * x,
\* and the region-2 phase k2 * (x - boundary1) - speed * time, with nothing
\* carried over, starts at sample 1000, x = 1000 + 1000/2999, where it is
\* k2 * 1000/2999 and not 0.  The curve plotted at construction holds these
\* samples.
C13_RegionResetBeyondBoundary ==
    C13_DefaultParams =>
        LET wv == calculate_wave(widget, widget.wavelength)
            b == widget.boundary1 * XDen
        IN  /\ wv[0].region = 1 /\ wv[0].a = 5 /\ C13_SinOfZero(wv[0])
            /\ XNum(999) < b /\ b < XNum(1000)
            /\ wv[999].region = 1
            /\ wv[999].phase.k = [index |-> [base |-> 10003, num |-> 0, den |-> 1],
                                  wl |-> 550]
            /\ wv[999].phase.d = 999 * 3000 /\ wv[999].phase.carry = <<>>
            /\ wv[1000].region = 2
            /\ wv[1000].phase.k = [index |-> [base |-> 13300, num |-> 0, den |-> 1],
                                   wl |-> 550]
            /\ wv[1000].phase.d = 1000 /\ wv[1000].phase.wt = 0
            /\ wv[1000].phase.carry = <<>>
            /\ \A i \in {0, 999, 1000} : wave_curve.data[i] = wv[i]

C13_Witness ==
    /\ C13_DefaultParams
    /\ last = "speed_slider"
    /\ calls = <<>>
    /\ wave_curve.data[0].phase.d = 0
    /\ wave_curve.data[1000].region = 2
    /\ wave_curve.data[1000].phase.d = 1000

\* C14: in every state reachable by toggle_white_light calls, setters and
\* ticks, the single-wavelength curve is visible if and only if white_light is
\* false, and each of the seven fixed-wavelength curves is visible if and only
\* if white_light is true: never both kinds visible, never none.
C14_ModeVisibility ==
    /\ wave_curve.visible <=> ~widget.white_light
    /\ Len(wave_curves) = 7
    /\ \A k \in DOMAIN wave_curves : wave_curves[k].visible <=> widget.white_light

C14_Witness ==
    /\ last = "update_animation"
    /\ events >= 2
    /\ widget.white_light
    /\ ~wave_curve.visible
    /\ wave_curves[1].visible /\ wave_curves[7].visible
    /\ widget.title = "White Light Dispersion (Prism Effect)"

\* C15: after apply_scenario for any scenario, following any sequence of
\* n-slider moves and medium selections, the widget's n1, n2, n3 equal the
\* preset refractive indices (medium_presets) of the scenario's three
\* materials and current_medium1/2/3 equal those material names.  (Stated as
\* claimed; a combo that already shows the material emits nothing, and the
\* index goes through the slider as int(n * 100) / 100.)
C15_PresetApplied ==
    last = "apply_scenario" =>
        LET m == scenario_materials[app.scenario_combo]
        IN  /\ widget.n1 = medium_presets[m[1]]
            /\ widget.n2 = medium_presets[m[2]]
            /\ widget.n3 = medium_presets[m[3]]
            /\ widget.current_medium1 = m[1]
            /\ widget.current_medium2 = m[2]
            /\ widget.current_medium3 = m[3]

\* what the code does: after apply_scenario the three combos show the
\* scenario's materials, and so do current_medium1/2/3; the indices are
\* whatever the sliders last set
C15_PresetNamesApplied ==
    last = "apply_scenario" =>
        LET m == scenario_materials[app.scenario_combo]
        IN  /\ app.medium1_combo = m[1] /\ app.medium2_combo = m[2]
            /\ app.medium3_combo = m[3]
            /\ widget.current_medium1 = m[1]
            /\ widget.current_medium2 = m[2]
            /\ widget.current_medium3 = m[3]


====
